---- MODULE Spec2Model ----
(***************************************************************************)
(* Model of the Fitbit MCP server (src/src/index.ts): server start-up,     *)
(* the sixteen tool handlers, the request helper makeApiRequest, the date  *)
(* helper formatDate and the envelope every handler resolves to.           *)
(*                                                                         *)
(* Strings are TLA+ strings, built with \o exactly where the source uses   *)
(* template literals.  JSON values are tagged records; objects keep their  *)
(* members in insertion order, as JSON.stringify prints them.              *)
(***************************************************************************)
EXTENDS Integers, Sequences, FiniteSets, TLC

VARIABLES phase, exitCode, accessToken, tools, now, tzOffset, inv, network

vars == <<phase, exitCode, accessToken, tools, now, tzOffset, inv, network>>

(***************************************************************************)
(* Bounds of the model.                                                    *)
(***************************************************************************)
\* number of times the clock advances during a run
MaxTicks == 1
\* hours the clock advances per tick
TickHours == 10
\* total number of outbound network calls in a run
MaxFetches == 2
\* number of invocations the host may have in flight at once
MaxInFlight == 2

(***************************************************************************)
(* Program constants.                                                      *)
(***************************************************************************)
baseUrl == "https://api.fitbit.com/1"

\* The clock starts at 2024-03-15T20:00Z (hours since the Unix epoch).
EpochDayAtStart == 19797
StartHour == EpochDayAtStart * 24 + 20

\* Offsets (hours) of the host's local calendar from UTC.
TzOffsets == {0 - 8, 0, 9}

(***************************************************************************)
(* Optional string parameters (zod: z.string().optional()).                *)
(***************************************************************************)
Absent == [present |-> FALSE]
Some(s) == [present |-> TRUE, value |-> s]

\* JavaScript truthiness of an optional string: undefined and "" are falsy.
Truthy(opt) == opt.present /\ opt.value # ""

(***************************************************************************)
(* JSON values.                                                            *)
(***************************************************************************)
JUndefined == [t |-> "undefined"]
JNull == [t |-> "null"]
JBool(b) == [t |-> "boolean", b |-> b]
JNum(n) == [t |-> "number", n |-> n]
JStr(s) == [t |-> "string", s |-> s]
JArr(items) == [t |-> "array", items |-> items]
\* members: a sequence of <<key, value>> pairs in insertion order
JObj(members) == [t |-> "object", members |-> members]

EmptyList == JArr(<<>>)
EmptyObject == JObj(<<>>)

\* JavaScript truthiness of a value: undefined, null, false, 0 and "" are falsy.
IsTruthy(v) ==
  CASE v.t = "undefined" -> FALSE
    [] v.t = "null" -> FALSE
    [] v.t = "boolean" -> v.b
    [] v.t = "number" -> v.n # 0
    [] v.t = "string" -> v.s # ""
    [] OTHER -> TRUE

\* a || b
OrElse(a, b) == IF IsTruthy(a) THEN a ELSE b

\* Property read data.key on a value that is neither null nor undefined:
\* the member's value for an object that has the key, undefined otherwise.
Prop(data, key) ==
  IF data.t = "object" /\ \E i \in 1..Len(data.members) : data.members[i][1] = key
  THEN LET i == CHOOSE j \in 1..Len(data.members) : data.members[j][1] = key
       IN data.members[i][2]
  ELSE JUndefined

\* Property read on null or undefined throws a TypeError.
CanReadProps(data) == data.t \notin {"null", "undefined"}

TypeErrorReading(data, key) ==
  [name |-> "TypeError",
   message |-> "Cannot read properties of " \o data.t \o " (reading '" \o key \o "')"]

(***************************************************************************)
(* JSON.stringify(value, null, 2).                                         *)
(***************************************************************************)
RECURSIVE Spaces(_)
Spaces(n) == IF n = 0 THEN "" ELSE " " \o Spaces(n - 1)

RECURSIVE Stringify(_, _)
RECURSIVE StringifyItems(_, _, _)
RECURSIVE StringifyMembers(_, _, _)

\* the items of an array from index i on, one per line at the given depth
StringifyItems(items, i, depth) ==
  IF i > Len(items) THEN ""
  ELSE Spaces(2 * depth) \o Stringify(items[i], depth)
       \o (IF i < Len(items) THEN ",\n" ELSE "\n")
       \o StringifyItems(items, i + 1, depth)

\* the members of an object from index i on, one per line at the given depth
StringifyMembers(members, i, depth) ==
  IF i > Len(members) THEN ""
  ELSE Spaces(2 * depth) \o "\"" \o members[i][1] \o "\": "
       \o Stringify(members[i][2], depth)
       \o (IF i < Len(members) THEN ",\n" ELSE "\n")
       \o StringifyMembers(members, i + 1, depth)

Stringify(v, depth) ==
  CASE v.t = "null" -> "null"
    [] v.t = "boolean" -> (IF v.b THEN "true" ELSE "false")
    [] v.t = "number" -> ToString(v.n)
    [] v.t = "string" -> "\"" \o v.s \o "\""
    [] v.t = "array" ->
         IF Len(v.items) = 0 THEN "[]"
         ELSE "[\n" \o StringifyItems(v.items, 1, depth + 1) \o Spaces(2 * depth) \o "]"
    [] v.t = "object" ->
         IF Len(v.members) = 0 THEN "{}"
         ELSE "{\n" \o StringifyMembers(v.members, 1, depth + 1) \o Spaces(2 * depth) \o "}"

JSONstringify(v) == Stringify(v, 0)

(***************************************************************************)
(* The clock and formatDate.  The clock counts hours since the Unix epoch. *)
(***************************************************************************)
\* Calendar date of a day number (days since 1970-01-01), proleptic Gregorian.
CivilFromDays(days) ==
  LET z == days + 719468
      era == z \div 146097
      doe == z - era * 146097
      yoe == (doe - doe \div 1460 + doe \div 36524 - doe \div 146096) \div 365
      doy == doe - (365 * yoe + yoe \div 4 - yoe \div 100)
      mp == (5 * doy + 2) \div 153
      d == doy - (153 * mp + 2) \div 5 + 1
      m == IF mp < 10 THEN mp + 3 ELSE mp - 9
      y == yoe + era * 400 + (IF m <= 2 THEN 1 ELSE 0)
  IN [year |-> y, month |-> m, day |-> d]

Pad2(n) == IF n < 10 THEN "0" \o ToString(n) ELSE ToString(n)

\* YYYY-MM-DD of a day number (years 1000..9999)
DateString(days) ==
  LET c == CivilFromDays(days)
  IN ToString(c.year) \o "-" \o Pad2(c.month) \o "-" \o Pad2(c.day)

\* Date.prototype.toISOString of an instant: always UTC.
toISOString(hours) ==
  DateString(hours \div 24) \o "T" \o Pad2(hours % 24) \o ":00:00.000Z"

\* s.split(sep)[0] for a one-character separator: the text before its first
\* occurrence, the whole string when it does not occur.
RECURSIVE SplitHeadFrom(_, _, _)
SplitHeadFrom(s, sep, i) ==
  IF i > Len(s) THEN s
  ELSE IF SubSeq(s, i, i) = sep THEN SubSeq(s, 1, i - 1)
  ELSE SplitHeadFrom(s, sep, i + 1)

SplitHead(s, sep) == SplitHeadFrom(s, sep, 1)

\* Variant: a formatDate that always takes the date from the clock.
formatDateFromClock(date, clock) == SplitHead(toISOString(clock), "T")

\* formatDate(date) evaluated when the clock reads `clock`
formatDate(date, clock) ==
  IF Truthy(date) THEN date.value
  ELSE SplitHead(toISOString(clock), "T")

\* Today in the host's local calendar, for a host `offset` hours from UTC.
LocalDate(clock, offset) == DateString((clock + offset) \div 24)

(***************************************************************************)
(* Results of evaluating code that may throw.                              *)
(***************************************************************************)
Return(v) == [ok |-> TRUE, value |-> v]
Throw(e) == [ok |-> FALSE, error |-> e]

(***************************************************************************)
(* makeApiRequest.                                                         *)
(***************************************************************************)
\* Variant: the token is sent without the Bearer scheme.
FetchRequestBareToken(endpoint, token) ==
  [url |-> baseUrl \o endpoint,
   headers |-> [Authorization |-> token, Accept |-> "application/json"]]

\* The request fetch() is called with.
FetchRequest(endpoint, token) ==
  [url |-> baseUrl \o endpoint,
   headers |-> [Authorization |-> "Bearer " \o token,
                Accept |-> "application/json"]]

\* Variant: a request equal to the last one sent is answered from a cache.
fetchCached(net, request) ==
  IF net.count > 0 /\ net.last = request THEN net
  ELSE [count |-> net.count + 1, last |-> request]

\* fetch(url, {headers}): one outbound call on the network, which counts the
\* calls made and holds the last request sent.
fetch(net, request) == [count |-> net.count + 1, last |-> request]

\* Response.ok
ResponseOk(status) == status >= 200 /\ status <= 299

\* Variant: a request helper that decodes the body whatever the status.
makeApiRequestIgnoringStatus(outcome) ==
  IF outcome.kind = "transport"
  THEN Throw([name |-> "TypeError", message |-> outcome.message])
  ELSE IF ~outcome.body.decodable
  THEN Throw([name |-> "SyntaxError", message |-> outcome.body.message])
  ELSE Return(outcome.body.value)

\* What makeApiRequest returns or throws once its fetch has settled.
makeApiRequest(outcome) ==
  IF outcome.kind = "transport"
  THEN Throw([name |-> "TypeError", message |-> outcome.message])
  ELSE IF ~ResponseOk(outcome.status)
  THEN Throw([name |-> "Error",
              message |-> "Fitbit API error: " \o ToString(outcome.status)
                          \o " " \o outcome.statusText])
  ELSE IF ~outcome.body.decodable
  THEN Throw([name |-> "SyntaxError", message |-> outcome.body.message])
  ELSE Return(outcome.body.value)

(***************************************************************************)
(* The envelope of a tool result.                                          *)
(***************************************************************************)
SuccessEnvelope(payload) ==
  [content |-> << [type |-> "text", text |-> JSONstringify(payload)] >>]

ErrorEnvelope(error) ==
  [content |-> << [type |-> "text", text |-> "Error: " \o error.message] >>,
   isError |-> TRUE]

\* How the promise of a handler settles.
Pending == [state |-> "pending"]
Resolved(envelope) == [state |-> "resolved", envelope |-> envelope]
Rejected(error) == [state |-> "rejected", error |-> error]

(***************************************************************************)
(* The sixteen tools registered by initServer, one group of definitions    *)
(* per handler: the endpoint it requests and the payload it builds from    *)
(* the decoded body inside its try block.                                  *)
(***************************************************************************)
\* Variant: a missing field is passed on as null instead of the fallback.
ExtractOrNull(data, key, fallback) ==
  IF IsTruthy(Prop(data, key)) THEN Prop(data, key) ELSE JNull

\* data.key || fallback
Extract(data, key, fallback) == OrElse(Prop(data, key), fallback)

\* getUserProfile
getUserProfileEndpoint == "/user/-/profile.json"
getUserProfilePayload(data) == Return(data)

\* Variant: getDevices asking for the devices of today's date.
getDevicesEndpointDated ==
  "/user/-/devices/date/" \o SplitHead(toISOString(now), "T") \o ".json"

\* getDevices
getDevicesEndpoint == "/user/-/devices.json"
getDevicesPayload(data) == Return(data)

\* getBadges
getBadgesEndpoint == "/user/-/badges.json"
getBadgesPayload(data) == Return(data)

\* getLifetimeStats
getLifetimeStatsEndpoint == "/user/-/activities.json"
getLifetimeStatsPayload(data) ==
  IF ~CanReadProps(data) THEN Throw(TypeErrorReading(data, "lifetime"))
  ELSE Return(JObj(<< <<"lifetime", Extract(data, "lifetime", EmptyObject)>>,
                      <<"best", Extract(data, "best", EmptyObject)>> >>))

\* getUserSettings
getUserSettingsEndpoint == "/user/-/profile.json"
getUserSettingsPayload(data) ==
  IF ~CanReadProps(data) THEN Throw(TypeErrorReading(data, "user"))
  ELSE Return(JObj(<< <<"user", Extract(data, "user", EmptyObject)>> >>))

\* getActivities
getActivitiesEndpoint(formattedDate) == "/user/-/activities/date/" \o formattedDate \o ".json"
getActivitiesPayload(formattedDate, data) ==
  IF ~CanReadProps(data) THEN Throw(TypeErrorReading(data, "activities"))
  ELSE Return(JObj(<< <<"date", JStr(formattedDate)>>,
                      <<"activities", Extract(data, "activities", EmptyList)>>,
                      <<"summary", Extract(data, "summary", EmptyObject)>> >>))

\* getSleepLogs
getSleepLogsEndpoint(formattedDate) == "/user/-/sleep/date/" \o formattedDate \o ".json"
getSleepLogsPayload(formattedDate, data) ==
  IF ~CanReadProps(data) THEN Throw(TypeErrorReading(data, "sleep"))
  ELSE Return(JObj(<< <<"date", JStr(formattedDate)>>,
                      <<"sleep", Extract(data, "sleep", EmptyList)>>,
                      <<"summary", Extract(data, "summary", EmptyObject)>> >>))

\* getFoodLogs
getFoodLogsEndpoint(formattedDate) == "/user/-/foods/log/date/" \o formattedDate \o ".json"
getFoodLogsPayload(formattedDate, data) ==
  IF ~CanReadProps(data) THEN Throw(TypeErrorReading(data, "foods"))
  ELSE Return(JObj(<< <<"date", JStr(formattedDate)>>,
                      <<"meals", Extract(data, "foods", EmptyList)>>,
                      <<"summary", Extract(data, "summary", EmptyObject)>> >>))

\* getWaterLogs
getWaterLogsEndpoint(formattedDate) == "/user/-/foods/log/water/date/" \o formattedDate \o ".json"
getWaterLogsPayload(formattedDate, data) ==
  IF ~CanReadProps(data) THEN Throw(TypeErrorReading(data, "water"))
  ELSE Return(JObj(<< <<"date", JStr(formattedDate)>>,
                      <<"water", Extract(data, "water", EmptyList)>>,
                      <<"summary", Extract(data, "summary", EmptyObject)>> >>))

\* Variant: getHeartRate leaving the period segment out when no period is given.
getHeartRateEndpointNoDefault(formattedDate, period) ==
  IF Truthy(period)
  THEN "/user/-/activities/heart/date/" \o formattedDate \o "/" \o period.value \o ".json"
  ELSE "/user/-/activities/heart/date/" \o formattedDate \o ".json"

\* getHeartRate
getHeartRateEndpoint(formattedDate, period) ==
  IF Truthy(period)
  THEN "/user/-/activities/heart/date/" \o formattedDate \o "/" \o period.value \o ".json"
  ELSE "/user/-/activities/heart/date/" \o formattedDate \o "/1d.json"
getHeartRatePayload(formattedDate, data) ==
  IF ~CanReadProps(data) THEN Throw(TypeErrorReading(data, "activities-heart"))
  ELSE Return(JObj(<< <<"date", JStr(formattedDate)>>,
                      <<"heartRate", Extract(data, "activities-heart", EmptyList)>>,
                      <<"intraday", Extract(data, "activities-heart-intraday", EmptyObject)>> >>))

\* getSteps
getStepsEndpoint(formattedDate, period) ==
  IF Truthy(period)
  THEN "/user/-/activities/steps/date/" \o formattedDate \o "/" \o period.value \o ".json"
  ELSE "/user/-/activities/steps/date/" \o formattedDate \o "/1d.json"
getStepsPayload(formattedDate, data) ==
  IF ~CanReadProps(data) THEN Throw(TypeErrorReading(data, "activities-steps"))
  ELSE Return(JObj(<< <<"date", JStr(formattedDate)>>,
                      <<"steps", Extract(data, "activities-steps", EmptyList)>>,
                      <<"intraday", Extract(data, "activities-steps-intraday", EmptyObject)>> >>))

\* getFloorsClimbed
getFloorsClimbedEndpoint(formattedDate, period) ==
  IF Truthy(period)
  THEN "/user/-/activities/floors/date/" \o formattedDate \o "/" \o period.value \o ".json"
  ELSE "/user/-/activities/floors/date/" \o formattedDate \o "/1d.json"
getFloorsClimbedPayload(formattedDate, data) ==
  IF ~CanReadProps(data) THEN Throw(TypeErrorReading(data, "activities-floors"))
  ELSE Return(JObj(<< <<"date", JStr(formattedDate)>>,
                      <<"floors", Extract(data, "activities-floors", EmptyList)>>,
                      <<"intraday", Extract(data, "activities-floors-intraday", EmptyObject)>> >>))

\* getDistance
getDistanceEndpoint(formattedDate, period) ==
  IF Truthy(period)
  THEN "/user/-/activities/distance/date/" \o formattedDate \o "/" \o period.value \o ".json"
  ELSE "/user/-/activities/distance/date/" \o formattedDate \o "/1d.json"
getDistancePayload(formattedDate, data) ==
  IF ~CanReadProps(data) THEN Throw(TypeErrorReading(data, "activities-distance"))
  ELSE Return(JObj(<< <<"date", JStr(formattedDate)>>,
                      <<"distance", Extract(data, "activities-distance", EmptyList)>>,
                      <<"intraday", Extract(data, "activities-distance-intraday", EmptyObject)>> >>))

\* getCalories
getCaloriesEndpoint(formattedDate, period) ==
  IF Truthy(period)
  THEN "/user/-/activities/calories/date/" \o formattedDate \o "/" \o period.value \o ".json"
  ELSE "/user/-/activities/calories/date/" \o formattedDate \o "/1d.json"
getCaloriesPayload(formattedDate, data) ==
  IF ~CanReadProps(data) THEN Throw(TypeErrorReading(data, "activities-calories"))
  ELSE Return(JObj(<< <<"date", JStr(formattedDate)>>,
                      <<"calories", Extract(data, "activities-calories", EmptyList)>>,
                      <<"intraday", Extract(data, "activities-calories-intraday", EmptyObject)>> >>))

\* getActiveZoneMinutes
getActiveZoneMinutesEndpoint(formattedDate, period) ==
  IF Truthy(period)
  THEN "/user/-/activities/active-zone-minutes/date/" \o formattedDate \o "/" \o period.value \o ".json"
  ELSE "/user/-/activities/active-zone-minutes/date/" \o formattedDate \o "/1d.json"
getActiveZoneMinutesPayload(formattedDate, data) ==
  IF ~CanReadProps(data) THEN Throw(TypeErrorReading(data, "activities-active-zone-minutes"))
  ELSE Return(JObj(<< <<"date", JStr(formattedDate)>>,
                      <<"activeZones", Extract(data, "activities-active-zone-minutes", EmptyList)>>,
                      <<"intraday", Extract(data, "activities-active-zone-minutes-intraday", EmptyObject)>> >>))

\* getBodyMeasurements: the weight-log request, then the fat-log request
getBodyMeasurementsEndpoint(formattedDate, period) ==
  IF Truthy(period)
  THEN "/user/-/body/log/weight/date/" \o formattedDate \o "/" \o period.value \o ".json"
  ELSE "/user/-/body/log/weight/date/" \o formattedDate \o ".json"
\* Variant: the fat-log path is rewritten from the endpoint last requested by
\* the server, a variable all handlers share, instead of the handler's own.
getBodyMeasurementsFatEndpointFromLast(formattedDate, period) ==
  LET last == SubSeq(network.last.url, Len(baseUrl) + 1, Len(network.last.url))
  IN "/user/-/body/log/fat"
       \o SubSeq(last, Len("/user/-/body/log/weight") + 1, Len(last))

\* Variant: the second request asks for the weight log again.
getBodyMeasurementsFatEndpointWeightAgain(formattedDate, period) ==
  getBodyMeasurementsEndpoint(formattedDate, period)

getBodyMeasurementsFatEndpoint(formattedDate, period) ==
  IF Truthy(period)
  THEN "/user/-/body/log/fat/date/" \o formattedDate \o "/" \o period.value \o ".json"
  ELSE "/user/-/body/log/fat/date/" \o formattedDate \o ".json"
getBodyMeasurementsPayload(formattedDate, weightData, fatData) ==
  IF ~CanReadProps(weightData) THEN Throw(TypeErrorReading(weightData, "weight"))
  ELSE IF ~CanReadProps(fatData) THEN Throw(TypeErrorReading(fatData, "fat"))
  ELSE Return(JObj(<< <<"date", JStr(formattedDate)>>,
                      <<"weight", Extract(weightData, "weight", EmptyList)>>,
                      <<"fat", Extract(fatData, "fat", EmptyList)>> >>))

(***************************************************************************)
(* The tool catalogue.                                                     *)
(***************************************************************************)
NoParamTools ==
  {"getUserProfile", "getLifetimeStats", "getUserSettings", "getDevices", "getBadges"}
DateOnlyTools == {"getActivities", "getSleepLogs", "getFoodLogs", "getWaterLogs"}
DatePeriodTools ==
  {"getHeartRate", "getSteps", "getFloorsClimbed", "getDistance", "getCalories",
   "getActiveZoneMinutes"}
DualEndpointTools == {"getBodyMeasurements"}

\* tools whose schema declares `date`, and those whose schema declares `period`
DateTools == DateOnlyTools \cup DatePeriodTools \cup DualEndpointTools
PeriodTools == DatePeriodTools \cup DualEndpointTools

\* every server.tool(...) registration of initServer
ToolNames == NoParamTools \cup DateTools

\* The endpoint of the first request of a handler.
Endpoint(tool, formattedDate, period) ==
  CASE tool = "getUserProfile" -> getUserProfileEndpoint
    [] tool = "getDevices" -> getDevicesEndpoint
    [] tool = "getBadges" -> getBadgesEndpoint
    [] tool = "getLifetimeStats" -> getLifetimeStatsEndpoint
    [] tool = "getUserSettings" -> getUserSettingsEndpoint
    [] tool = "getActivities" -> getActivitiesEndpoint(formattedDate)
    [] tool = "getSleepLogs" -> getSleepLogsEndpoint(formattedDate)
    [] tool = "getFoodLogs" -> getFoodLogsEndpoint(formattedDate)
    [] tool = "getWaterLogs" -> getWaterLogsEndpoint(formattedDate)
    [] tool = "getHeartRate" -> getHeartRateEndpoint(formattedDate, period)
    [] tool = "getSteps" -> getStepsEndpoint(formattedDate, period)
    [] tool = "getFloorsClimbed" -> getFloorsClimbedEndpoint(formattedDate, period)
    [] tool = "getDistance" -> getDistanceEndpoint(formattedDate, period)
    [] tool = "getCalories" -> getCaloriesEndpoint(formattedDate, period)
    [] tool = "getActiveZoneMinutes" -> getActiveZoneMinutesEndpoint(formattedDate, period)
    [] tool = "getBodyMeasurements" -> getBodyMeasurementsEndpoint(formattedDate, period)

\* What the try block of a single-request handler evaluates to once its
\* request has returned `data`: the payload, or the error thrown on the way.
Payload(tool, formattedDate, data) ==
  CASE tool = "getUserProfile" -> getUserProfilePayload(data)
    [] tool = "getDevices" -> getDevicesPayload(data)
    [] tool = "getBadges" -> getBadgesPayload(data)
    [] tool = "getLifetimeStats" -> getLifetimeStatsPayload(data)
    [] tool = "getUserSettings" -> getUserSettingsPayload(data)
    [] tool = "getActivities" -> getActivitiesPayload(formattedDate, data)
    [] tool = "getSleepLogs" -> getSleepLogsPayload(formattedDate, data)
    [] tool = "getFoodLogs" -> getFoodLogsPayload(formattedDate, data)
    [] tool = "getWaterLogs" -> getWaterLogsPayload(formattedDate, data)
    [] tool = "getHeartRate" -> getHeartRatePayload(formattedDate, data)
    [] tool = "getSteps" -> getStepsPayload(formattedDate, data)
    [] tool = "getFloorsClimbed" -> getFloorsClimbedPayload(formattedDate, data)
    [] tool = "getDistance" -> getDistancePayload(formattedDate, data)
    [] tool = "getCalories" -> getCaloriesPayload(formattedDate, data)
    [] tool = "getActiveZoneMinutes" -> getActiveZoneMinutesPayload(formattedDate, data)

(***************************************************************************)
(* The environment: what the host passes in and what the upstream answers. *)
(***************************************************************************)
DateInputs == {Absent, Some(""), Some("2024-03-15"), Some("not-a-date")}
PeriodInputs == {Absent, Some(""), Some("7d")}

DateArgs(tool) == IF tool \in DateTools THEN DateInputs ELSE {Absent}
PeriodArgs(tool) == IF tool \in PeriodTools THEN PeriodInputs ELSE {Absent}

\* A parameter the tool's schema does not declare (a `date` passed to a tool
\* registered with the schema {}): the handler never receives it.
ExtraInputs == {Absent, Some("2024-03-15")}
ExtraArgs(tool) == IF tool \in NoParamTools THEN ExtraInputs ELSE {Absent}

ConfigTokens == {"", "tok-A", "tok-B"}
ArgvTokens == {Absent, Some(""), Some("tok-A")}
EnvTokens == {Absent, Some(""), Some("tok-B")}

\* The two top-level keys a complete upstream body carries for each tool.
ResponseKeys(tool) ==
  CASE tool \in {"getUserProfile", "getUserSettings"} -> <<"user", "extra">>
    [] tool = "getDevices" -> <<"devices", "extra">>
    [] tool = "getBadges" -> <<"badges", "extra">>
    [] tool = "getLifetimeStats" -> <<"best", "lifetime">>
    [] tool = "getActivities" -> <<"activities", "summary">>
    [] tool = "getSleepLogs" -> <<"sleep", "summary">>
    [] tool = "getFoodLogs" -> <<"foods", "summary">>
    [] tool = "getWaterLogs" -> <<"water", "summary">>
    [] tool = "getHeartRate" -> <<"activities-heart", "activities-heart-intraday">>
    [] tool = "getSteps" -> <<"activities-steps", "activities-steps-intraday">>
    [] tool = "getFloorsClimbed" -> <<"activities-floors", "activities-floors-intraday">>
    [] tool = "getDistance" -> <<"activities-distance", "activities-distance-intraday">>
    [] tool = "getCalories" -> <<"activities-calories", "activities-calories-intraday">>
    [] tool = "getActiveZoneMinutes" ->
         <<"activities-active-zone-minutes", "activities-active-zone-minutes-intraday">>
    [] tool = "getBodyMeasurements" -> <<"weight", "fat">>

SampleList == JArr(<<JNum(1), JStr("a")>>)
SampleObject == JObj(<< <<"total", JNum(2)>> >>)

\* a body carrying both keys with non-empty values
FullBody(tool) ==
  JObj(<< <<ResponseKeys(tool)[1], SampleList>>, <<ResponseKeys(tool)[2], SampleObject>> >>)

\* a body carrying both keys with falsy values
FalsyBody(tool) ==
  JObj(<< <<ResponseKeys(tool)[1], JNum(0)>>, <<ResponseKeys(tool)[2], JNull>> >>)

\* the decodable bodies the upstream may answer with
JsonBodies(tool) ==
  {JNull, EmptyObject, SampleObject, FullBody(tool), FalsyBody(tool), JNum(7),
   JStr("ok"), SampleList}

Decodable(v) == [decodable |-> TRUE, value |-> v]
Undecodable == [decodable |-> FALSE, message |-> "Unexpected end of JSON input"]

TransportFailure == [kind |-> "transport", message |-> "fetch failed"]
HttpResponse(status, statusText, body) ==
  [kind |-> "http", status |-> status, statusText |-> statusText, body |-> body]

ErrorResponses ==
  {HttpResponse(401, "Unauthorized", Undecodable),
   HttpResponse(500, "Internal Server Error", Decodable(EmptyObject))}

\* every way one fetch of a tool can settle
Outcomes(tool) ==
  {TransportFailure} \cup ErrorResponses
    \cup {HttpResponse(200, "OK", Undecodable)}
    \cup {HttpResponse(200, "OK", Decodable(v)) : v \in JsonBodies(tool)}

(***************************************************************************)
(* Server start-up.                                                        *)
(***************************************************************************)
\* a || b on optional strings
OrOpt(a, b) == IF Truthy(a) THEN a ELSE b

\* initServer(config): the access token it settles on, or the exit it takes.
\* config is Absent in STDIO mode (initServer()).
initServer(config, argvToken, envToken) ==
  IF config.present
  THEN [exit |-> FALSE, accessToken |-> Some(config.value)]
  ELSE LET token == OrOpt(argvToken, envToken)
       IN IF ~Truthy(token)
          THEN [exit |-> TRUE, code |-> 1]
          ELSE [exit |-> FALSE, accessToken |-> token]

Slots == 1..MaxInFlight

Idle ==
  [pc |-> "idle", tool |-> "", date |-> Absent, period |-> Absent,
   extra |-> Absent, calledAt |-> 0, issuedAt |-> <<>>, formattedDate |-> "", requests |-> <<>>, outcomes |-> <<>>,
   weightData |-> JUndefined, result |-> Pending]

Init ==
  /\ phase = "boot"
  /\ exitCode = <<>>
  /\ accessToken = Absent
  /\ tools = {}
  /\ now = StartHour
  /\ tzOffset \in TzOffsets
  /\ inv = [i \in Slots |-> Idle]
  /\ network = [count |-> 0, last |-> FetchRequest("", "")]

\* The outcome of initServer becomes the state of the process.
Boot(started) ==
  /\ phase = "boot"
  /\ IF started.exit
     THEN /\ phase' = "exited"
          /\ exitCode' = <<started.code>>
          /\ UNCHANGED <<accessToken, tools>>
     ELSE /\ phase' = "running"
          /\ accessToken' = started.accessToken
          /\ tools' = ToolNames
          /\ UNCHANGED exitCode
  /\ UNCHANGED <<now, tzOffset, inv, network>>

\* Smithery mode: the default export calls initServer(config).
SmitheryStart == \E t \in ConfigTokens : Boot(initServer(Some(t), Absent, Absent))

\* STDIO mode: main() calls initServer().
StdioStart ==
  \E a \in ArgvTokens : \E e \in EnvTokens : Boot(initServer(Absent, a, e))

(***************************************************************************)
(* Tool invocations.                                                       *)
(***************************************************************************)
\* Variant: a handler whose catch block lets the error escape.
CatchRethrows(error) == Rejected(error)

\* catch (error) { return {content: [...], isError: true} }
Catch(error) == Resolved(ErrorEnvelope(error))

\* How the handler settles given what its try block evaluated to.
Settled(tried) ==
  IF tried.ok THEN Resolved(SuccessEnvelope(tried.value)) ELSE Catch(tried.error)

\* The handler of `tool` runs up to its first await: it normalises the date,
\* builds the endpoint and issues the request.
Call(i, tool, date, period, extra) ==
  LET formattedDate == IF tool \in DateTools THEN formatDate(date, now) ELSE ""
      request == FetchRequest(Endpoint(tool, formattedDate, period),
                              accessToken.value)
  IN /\ inv' = [inv EXCEPT ![i] =
                  [pc |-> "await", tool |-> tool, date |-> date,
                   period |-> period, extra |-> extra, calledAt |-> now,
                   issuedAt |-> <<now>>,
                   formattedDate |-> formattedDate, requests |-> <<request>>,
                   outcomes |-> <<>>, weightData |-> JUndefined,
                   result |-> Pending]]
     /\ network' = fetch(network, request)

\* The host calls a tool.
Invoke(i) ==
  /\ phase = "running"
  /\ inv[i].pc = "idle"
  /\ network.count < MaxFetches
  /\ \E tool \in tools : \E date \in DateArgs(tool) : \E period \in PeriodArgs(tool) :
       \E extra \in ExtraArgs(tool) : Call(i, tool, date, period, extra)
  /\ UNCHANGED <<phase, exitCode, accessToken, tools, now, tzOffset>>

\* Variant: the fat-log request is issued whatever became of the weight-log
\* request, whose failure is kept for later.
WeightResponseThenFatAnyway(i, outcome) ==
  LET weight == makeApiRequest(outcome)
      request == FetchRequest(
                   getBodyMeasurementsFatEndpoint(inv[i].formattedDate,
                                                  inv[i].period),
                   accessToken.value)
  IN /\ inv' = [inv EXCEPT ![i].weightData = IF weight.ok THEN weight.value ELSE JNull,
                           ![i].outcomes = Append(@, outcome),
                           ![i].requests = Append(@, request),
                           ![i].issuedAt = Append(@, now)]
     /\ network' = fetch(network, request)

\* Variant: the date is normalised again for the fat-log request.
WeightResponseRenormalizing(i, outcome) ==
  LET weight == makeApiRequest(outcome)
      request == FetchRequest(
                   getBodyMeasurementsFatEndpoint(formatDate(inv[i].date, now),
                                                  inv[i].period),
                   accessToken.value)
  IN IF weight.ok
     THEN /\ inv' = [inv EXCEPT ![i].weightData = weight.value,
                                ![i].outcomes = Append(@, outcome),
                                ![i].requests = Append(@, request),
                                ![i].issuedAt = Append(@, now)]
          /\ network' = fetch(network, request)
     ELSE /\ inv' = [inv EXCEPT ![i].pc = "done",
                                ![i].outcomes = Append(@, outcome),
                                ![i].result = Settled(weight)]
          /\ UNCHANGED network

\* getBodyMeasurements resumes after its weight-log request: on success it
\* goes on to the fat-log request, otherwise it is done.
WeightResponse(i, outcome) ==
  LET weight == makeApiRequest(outcome)
      request == FetchRequest(
                   getBodyMeasurementsFatEndpoint(inv[i].formattedDate,
                                                  inv[i].period),
                   accessToken.value)
  IN IF weight.ok
     THEN /\ inv' = [inv EXCEPT ![i].weightData = weight.value,
                                ![i].outcomes = Append(@, outcome),
                                ![i].requests = Append(@, request),
                                ![i].issuedAt = Append(@, now)]
          /\ network' = fetch(network, request)
     ELSE /\ inv' = [inv EXCEPT ![i].pc = "done",
                                ![i].outcomes = Append(@, outcome),
                                ![i].result = Settled(weight)]
          /\ UNCHANGED network

\* The weight-log request of getBodyMeasurements settles.
WeightFetchSettles(i) ==
  /\ inv[i].pc = "await"
  /\ inv[i].tool \in DualEndpointTools
  /\ Len(inv[i].requests) = 1
  /\ \E outcome \in Outcomes(inv[i].tool) : WeightResponse(i, outcome)
  /\ UNCHANGED <<phase, exitCode, accessToken, tools, now, tzOffset>>

\* A handler resumes after its last request and returns.
Response(i, outcome) ==
  LET data == makeApiRequest(outcome)
      tried ==
        IF ~data.ok THEN data
        ELSE IF inv[i].tool \in DualEndpointTools
        THEN getBodyMeasurementsPayload(inv[i].formattedDate,
                                        inv[i].weightData, data.value)
        ELSE Payload(inv[i].tool, inv[i].formattedDate, data.value)
  IN inv' = [inv EXCEPT ![i].pc = "done",
                        ![i].outcomes = Append(@, outcome),
                        ![i].result = Settled(tried)]

\* The last request of a handler settles.
FetchSettles(i) ==
  /\ inv[i].pc = "await"
  /\ inv[i].tool \in DualEndpointTools => Len(inv[i].requests) = 2
  /\ \E outcome \in Outcomes(inv[i].tool) : Response(i, outcome)
  /\ UNCHANGED <<phase, exitCode, accessToken, tools, now, tzOffset, network>>

\* The host takes the result; the invocation is discarded.
Deliver(i) ==
  /\ inv[i].pc = "done"
  /\ inv' = [inv EXCEPT ![i] = Idle]
  /\ UNCHANGED <<phase, exitCode, accessToken, tools, now, tzOffset, network>>

\* Time passes.
Tick ==
  /\ now < StartHour + MaxTicks * TickHours
  /\ now' = now + TickHours
  /\ UNCHANGED <<phase, exitCode, accessToken, tools, tzOffset, inv, network>>

\* One invocation at a time.
Next ==
  \/ SmitheryStart
  \/ StdioStart
  \/ Invoke(1)
  \/ WeightFetchSettles(1)
  \/ FetchSettles(1)
  \/ Deliver(1)
  \/ Tick

Spec == Init /\ [][Next]_vars

(***************************************************************************)
(* Concurrent invocations: the host dispatches up to MaxInFlight calls at  *)
(* once and their handlers interleave at every await.  The inputs are a    *)
(* part of those of Spec: a single-request tool and the two-request tool,  *)
(* two dates, one period, two ways for a fetch to settle, one token and    *)
(* a host on UTC.                                                          *)
(***************************************************************************)
ConcTools == {"getActivities", "getBodyMeasurements"}
ConcDates == {Absent, Some("2024-03-15")}
ConcPeriods == {Absent}
ConcOutcomes(tool) ==
  {HttpResponse(401, "Unauthorized", Undecodable),
   HttpResponse(200, "OK", Decodable(FullBody(tool)))}

InitConc == Init /\ tzOffset = 0

\* STDIO mode with the token in the environment
ConcStart == Boot(initServer(Absent, Absent, Some("tok-B")))

\* The host gives a new call the first free slot.
ConcInvoke(i) ==
  /\ phase = "running"
  /\ inv[i].pc = "idle"
  /\ \A j \in 1..(i - 1) : inv[j].pc # "idle"
  /\ network.count < MaxFetches
  /\ \E tool \in tools \cap ConcTools :
       \E date \in DateArgs(tool) \cap ConcDates :
         \E period \in PeriodArgs(tool) \cap ConcPeriods :
           Call(i, tool, date, period, Absent)
  /\ UNCHANGED <<phase, exitCode, accessToken, tools, now, tzOffset>>

ConcWeightFetchSettles(i) ==
  /\ inv[i].pc = "await"
  /\ inv[i].tool \in DualEndpointTools
  /\ Len(inv[i].requests) = 1
  /\ \E outcome \in ConcOutcomes(inv[i].tool) : WeightResponse(i, outcome)
  /\ UNCHANGED <<phase, exitCode, accessToken, tools, now, tzOffset>>

ConcFetchSettles(i) ==
  /\ inv[i].pc = "await"
  /\ inv[i].tool \in DualEndpointTools => Len(inv[i].requests) = 2
  /\ \E outcome \in ConcOutcomes(inv[i].tool) : Response(i, outcome)
  /\ UNCHANGED <<phase, exitCode, accessToken, tools, now, tzOffset, network>>

NextConc ==
  \/ ConcStart
  \/ \E i \in Slots : ConcInvoke(i)
  \/ \E i \in Slots : ConcWeightFetchSettles(i)
  \/ \E i \in Slots : ConcFetchSettles(i)
  \/ \E i \in Slots : Deliver(i)
  \/ Tick

SpecConc == InitConc /\ [][NextConc]_vars

(***************************************************************************)
(* Vocabulary of the properties.                                           *)
(***************************************************************************)
StartsWith(s, prefix) ==
  Len(s) >= Len(prefix) /\ SubSeq(s, 1, Len(prefix)) = prefix

EndsWith(s, suffix) ==
  Len(s) >= Len(suffix) /\ SubSeq(s, Len(s) - Len(suffix) + 1, Len(s)) = suffix

Active(i) == inv[i].pc # "idle"
Done(i) == inv[i].pc = "done"

Envelope(i) == inv[i].result.envelope
Text(i) == Envelope(i).content[1].text
IsErrorEnvelope(i) ==
  DOMAIN Envelope(i) = {"content", "isError"} /\ Envelope(i).isError = TRUE
IsSuccessEnvelope(i) == DOMAIN Envelope(i) = {"content"}

\* the upstream request did not produce a decoded body
OutcomeFailed(o) ==
  \/ o.kind = "transport"
  \/ o.kind = "http" /\ (o.status < 200 \/ o.status > 299 \/ ~o.body.decodable)

\* the message of the failure of a failed request
FailureMessage(o) ==
  IF o.kind = "transport" THEN o.message
  ELSE IF o.status < 200 \/ o.status > 299
  THEN "Fitbit API error: " \o ToString(o.status) \o " " \o o.statusText
  ELSE o.body.message

LastOutcome(i) == inv[i].outcomes[Len(inv[i].outcomes)]
BodyOf(i, k) == inv[i].outcomes[k].body.value

\* tools that return the decoded body as it is
VerbatimTools == {"getUserProfile", "getDevices", "getBadges"}

\* For a reshaping tool, its output fields in order: <<output key, key read
\* from the body, default>>.
OutputFields(tool) ==
  CASE tool = "getLifetimeStats" ->
         << <<"lifetime", "lifetime", EmptyObject>>, <<"best", "best", EmptyObject>> >>
    [] tool = "getUserSettings" -> << <<"user", "user", EmptyObject>> >>
    [] tool = "getFoodLogs" ->
         << <<"meals", "foods", EmptyList>>, <<"summary", "summary", EmptyObject>> >>
    [] tool = "getActivities" ->
         << <<"activities", "activities", EmptyList>>,
            <<"summary", "summary", EmptyObject>> >>
    [] tool = "getSleepLogs" ->
         << <<"sleep", "sleep", EmptyList>>, <<"summary", "summary", EmptyObject>> >>
    [] tool = "getWaterLogs" ->
         << <<"water", "water", EmptyList>>, <<"summary", "summary", EmptyObject>> >>
    [] tool = "getHeartRate" ->
         << <<"heartRate", "activities-heart", EmptyList>>,
            <<"intraday", "activities-heart-intraday", EmptyObject>> >>
    [] tool = "getSteps" ->
         << <<"steps", "activities-steps", EmptyList>>,
            <<"intraday", "activities-steps-intraday", EmptyObject>> >>
    [] tool = "getFloorsClimbed" ->
         << <<"floors", "activities-floors", EmptyList>>,
            <<"intraday", "activities-floors-intraday", EmptyObject>> >>
    [] tool = "getDistance" ->
         << <<"distance", "activities-distance", EmptyList>>,
            <<"intraday", "activities-distance-intraday", EmptyObject>> >>
    [] tool = "getCalories" ->
         << <<"calories", "activities-calories", EmptyList>>,
            <<"intraday", "activities-calories-intraday", EmptyObject>> >>
    [] tool = "getActiveZoneMinutes" ->
         << <<"activeZones", "activities-active-zone-minutes", EmptyList>>,
            <<"intraday", "activities-active-zone-minutes-intraday", EmptyObject>> >>
    [] tool = "getBodyMeasurements" ->
         << <<"weight", "weight", EmptyList>>, <<"fat", "fat", EmptyList>> >>

\* The body the k-th output field of an invocation is read from: the body of
\* the k-th request for getBodyMeasurements, of the only request otherwise.
SourceBody(i, k) ==
  IF inv[i].tool \in DualEndpointTools THEN BodyOf(i, k) ELSE BodyOf(i, 1)

\* All requests returned a body, and a reshaping tool got null for one of them.
ReshapeFails(i) ==
  /\ inv[i].tool \notin VerbatimTools
  /\ \E k \in 1..Len(inv[i].outcomes) : BodyOf(i, k) = JNull

\* the key whose read fails first
FirstUnreadableKey(i) ==
  LET k == CHOOSE j \in 1..Len(inv[i].outcomes) :
             /\ BodyOf(i, j) = JNull
             /\ \A h \in 1..(j - 1) : BodyOf(i, h) # JNull
  IN IF inv[i].tool \in DualEndpointTools
     THEN OutputFields(inv[i].tool)[k][2]
     ELSE OutputFields(inv[i].tool)[1][2]

\* The payload a successful invocation is expected to carry.
ExpectedPayload(i) ==
  IF inv[i].tool \in VerbatimTools THEN BodyOf(i, 1)
  ELSE LET fields == OutputFields(inv[i].tool)
           extracted ==
             [k \in 1..Len(fields) |->
                LET v == Prop(SourceBody(i, k), fields[k][2])
                IN <<fields[k][1], IF IsTruthy(v) THEN v ELSE fields[k][3]>>]
       IN IF inv[i].tool \in DateTools
          THEN JObj(<< <<"date", JStr(inv[i].formattedDate)>> >> \o extracted)
          ELSE JObj(extracted)

(***************************************************************************)
(* C1: A tool handler never throws or rejects.  Whatever its upstream      *)
(* requests did, a finished invocation has resolved to an envelope with    *)
(* exactly one content block, of type "text".  On failure the text is      *)
(* "Error: " followed by the failure's message and isError is true; on     *)
(* success the text is the 2-space pretty-printed JSON of the payload and  *)
(* the envelope has no isError field.                                      *)
(***************************************************************************)
C1_WellFormed(i) ==
  /\ inv[i].result.state = "resolved"
  /\ DOMAIN Envelope(i) \subseteq {"content", "isError"}
  /\ Len(Envelope(i).content) = 1
  /\ DOMAIN Envelope(i).content[1] = {"type", "text"}
  /\ Envelope(i).content[1].type = "text"

C1_Text(i) ==
  IF OutcomeFailed(LastOutcome(i))
  THEN IsErrorEnvelope(i) /\ Text(i) = "Error: " \o FailureMessage(LastOutcome(i))
  ELSE IF ReshapeFails(i)
  THEN /\ IsErrorEnvelope(i)
       /\ Text(i) = "Error: Cannot read properties of null (reading '"
                      \o FirstUnreadableKey(i) \o "')"
  ELSE IsSuccessEnvelope(i) /\ Text(i) = JSONstringify(ExpectedPayload(i))

\* the printed form of one body, written out
C1_Printed(i) ==
  (inv[i].tool = "getDevices" /\ ~OutcomeFailed(LastOutcome(i))
     /\ BodyOf(i, 1) = FullBody("getDevices"))
  => Text(i) = "{\n  \"devices\": [\n    1,\n    \"a\"\n  ],\n"
                 \o "  \"extra\": {\n    \"total\": 2\n  }\n}"

C1_AlwaysAnEnvelope ==
  \A i \in Slots : Done(i) => C1_WellFormed(i) /\ C1_Text(i) /\ C1_Printed(i)

\* getBodyMeasurements finished in a failure of its second request
C1_Witness ==
  /\ Done(1)
  /\ inv[1].tool = "getBodyMeasurements"
  /\ Len(inv[1].outcomes) = 2
  /\ LastOutcome(1) = HttpResponse(200, "OK", Undecodable)
  /\ IsErrorEnvelope(1)

(***************************************************************************)
(* C2: When an upstream request of any tool answers with a non-2xx status  *)
(* S, the envelope has isError = true and its text begins with             *)
(* "Error: Fitbit API error: S", the status code followed by the status    *)
(* text.                                                                   *)
(***************************************************************************)
NonOk(o) == o.kind = "http" /\ (o.status < 200 \/ o.status > 299)

C2_UpstreamStatusError ==
  \A i \in Slots :
    Done(i) =>
      \A k \in 1..Len(inv[i].outcomes) :
        NonOk(inv[i].outcomes[k]) =>
          /\ inv[i].result.state = "resolved"
          /\ IsErrorEnvelope(i)
          /\ StartsWith(Text(i), "Error: Fitbit API error: "
                                   \o ToString(inv[i].outcomes[k].status))
          /\ Text(i) = "Error: Fitbit API error: "
                         \o ToString(inv[i].outcomes[k].status) \o " "
                         \o inv[i].outcomes[k].statusText

C2_Witness ==
  /\ Done(1)
  /\ inv[1].tool = "getUserProfile"
  /\ NonOk(LastOutcome(1))
  /\ Text(1) = "Error: Fitbit API error: 401 Unauthorized"

(***************************************************************************)
(* Where the date sits in the paths of the date-accepting tools.           *)
(***************************************************************************)
\* the resource segment of a date+period tool
Resource(tool) ==
  CASE tool = "getHeartRate" -> "heart"
    [] tool = "getSteps" -> "steps"
    [] tool = "getFloorsClimbed" -> "floors"
    [] tool = "getDistance" -> "distance"
    [] tool = "getCalories" -> "calories"
    [] tool = "getActiveZoneMinutes" -> "active-zone-minutes"

\* the path of the k-th request of a date-accepting tool up to the date
DatePrefix(tool, k) ==
  CASE tool = "getActivities" -> "/user/-/activities/date/"
    [] tool = "getSleepLogs" -> "/user/-/sleep/date/"
    [] tool = "getFoodLogs" -> "/user/-/foods/log/date/"
    [] tool = "getWaterLogs" -> "/user/-/foods/log/water/date/"
    [] tool = "getBodyMeasurements" /\ k = 1 -> "/user/-/body/log/weight/date/"
    [] tool = "getBodyMeasurements" /\ k = 2 -> "/user/-/body/log/fat/date/"
    [] OTHER -> "/user/-/activities/" \o Resource(tool) \o "/date/"

\* what may follow the date in a path
PathTails(i) ==
  {".json", "/1d.json"}
    \cup (IF inv[i].period.present THEN {"/" \o inv[i].period.value \o ".json"} ELSE {})

\* the date `d` is in the date position of every request of invocation i
DateInPaths(i, d) ==
  \A k \in 1..Len(inv[i].requests) :
    \E tail \in PathTails(i) :
      inv[i].requests[k].url = baseUrl \o DatePrefix(inv[i].tool, k) \o d \o tail

\* the success payload of invocation i has `d` as its date field
DateInPayload(i, d) ==
  (Done(i) /\ inv[i].result.state = "resolved" /\ IsSuccessEnvelope(i))
    => StartsWith(Text(i), "{\n  \"date\": \"" \o d \o "\",\n")

(***************************************************************************)
(* C3 as stated: for every tool that accepts `period`, getBodyMeasurements *)
(* included, an invocation with `period` absent issues only requests whose *)
(* path has the form .../date/<date>/1d.json.                              *)
(***************************************************************************)
C3_Original ==
  \A i \in Slots :
    (Active(i) /\ inv[i].tool \in PeriodTools /\ ~inv[i].period.present) =>
      \A k \in 1..Len(inv[i].requests) :
        EndsWith(inv[i].requests[k].url,
                 "/date/" \o inv[i].formattedDate \o "/1d.json")

(***************************************************************************)
(* C3 amended: with `period` absent, the six date+period tools             *)
(* (getHeartRate, getSteps, getFloorsClimbed, getDistance, getCalories,    *)
(* getActiveZoneMinutes) issue one request, for period 1d, with path       *)
(* .../date/<date>/1d.json; getBodyMeasurements issues its weight-log and  *)
(* fat-log requests with no period segment, .../date/<date>.json.          *)
(***************************************************************************)
C3_DefaultPeriod ==
  \A i \in Slots :
    (Active(i) /\ ~inv[i].period.present) =>
      /\ inv[i].tool \in DatePeriodTools =>
           /\ Len(inv[i].requests) = 1
           /\ inv[i].requests[1].url =
                baseUrl \o "/user/-/activities/" \o Resource(inv[i].tool)
                  \o "/date/" \o inv[i].formattedDate \o "/1d.json"
      /\ inv[i].tool \in DualEndpointTools =>
           \A k \in 1..Len(inv[i].requests) :
             inv[i].requests[k].url =
               baseUrl \o DatePrefix(inv[i].tool, k) \o inv[i].formattedDate
                 \o ".json"

C3_Witness ==
  /\ Done(1)
  /\ inv[1].tool = "getHeartRate"
  /\ ~inv[1].period.present
  /\ inv[1].requests[1].url
       = "https://api.fitbit.com/1/user/-/activities/heart/date/not-a-date/1d.json"

(***************************************************************************)
(* C4 as stated: for every date-accepting tool and every caller-supplied   *)
(* `date` string, the empty string included, the date is passed through    *)
(* unchanged: it is in the date position of every issued path and is the   *)
(* `date` field of the success payload.                                    *)
(***************************************************************************)
C4_Original ==
  \A i \in Slots :
    (Active(i) /\ inv[i].tool \in DateTools /\ inv[i].date.present) =>
      /\ inv[i].formattedDate = inv[i].date.value
      /\ DateInPaths(i, inv[i].date.value)
      /\ DateInPayload(i, inv[i].date.value)

(***************************************************************************)
(* C4 amended: every caller-supplied NON-EMPTY `date` string, malformed or *)
(* not, is passed through unchanged, whatever the clock reads: it is in    *)
(* the date position of every issued path and is the `date` field of the   *)
(* success payload.  An empty `date` string is treated as an absent one:   *)
(* the date is taken from the clock at the time of the call.               *)
(***************************************************************************)
C4_DatePassedThrough ==
  \A i \in Slots :
    (Active(i) /\ inv[i].tool \in DateTools /\ inv[i].date.present) =>
      IF inv[i].date.value # ""
      THEN /\ inv[i].formattedDate = inv[i].date.value
           /\ DateInPaths(i, inv[i].date.value)
           /\ DateInPayload(i, inv[i].date.value)
      ELSE /\ inv[i].formattedDate = DateString(inv[i].calledAt \div 24)
           /\ DateInPaths(i, DateString(inv[i].calledAt \div 24))
           /\ DateInPayload(i, DateString(inv[i].calledAt \div 24))

\* a malformed date went through to the path and to the payload
C4_Witness ==
  /\ Done(1)
  /\ inv[1].tool = "getActivities"
  /\ inv[1].date = Some("not-a-date")
  /\ inv[1].requests[1].url
       = "https://api.fitbit.com/1/user/-/activities/date/not-a-date.json"
  /\ IsSuccessEnvelope(1)
  /\ Text(1) = "{\n  \"date\": \"not-a-date\",\n  \"activities\": [],\n"
                 \o "  \"summary\": {}\n}"

(***************************************************************************)
(* C5: For every date-accepting tool, an invocation with `date` absent     *)
(* issues requests whose path carries today's date, YYYY-MM-DD, where      *)
(* today is the date of the host's LOCAL calendar at the time of the call. *)
(***************************************************************************)
C5_LocalToday ==
  \A i \in Slots :
    (Active(i) /\ inv[i].tool \in DateTools /\ ~inv[i].date.present) =>
      /\ inv[i].formattedDate = LocalDate(inv[i].calledAt, tzOffset)
      /\ DateInPaths(i, LocalDate(inv[i].calledAt, tzOffset))

(***************************************************************************)
(* C6 as stated: one invocation of getBodyMeasurements issues exactly two  *)
(* upstream requests, whatever their outcomes.                             *)
(***************************************************************************)
C6_Original ==
  \A i \in Slots :
    (Done(i) /\ inv[i].tool \in DualEndpointTools) => Len(inv[i].requests) = 2

\* what follows the date in the paths of getBodyMeasurements
BodyPathTail(i) ==
  IF inv[i].period.present /\ inv[i].period.value # ""
  THEN "/" \o inv[i].period.value \o ".json"
  ELSE ".json"

(***************************************************************************)
(* C6 amended: one invocation of getBodyMeasurements issues the weight-log *)
(* request and, if and only if that request succeeds, the fat-log request  *)
(* built from the same date and period: exactly two requests whenever the  *)
(* first succeeds, one otherwise.  On success it returns one payload       *)
(* {date, weight, fat} merging both responses; if the fat request fails,   *)
(* the result is a single error envelope whose text is "Error: " and the   *)
(* failure's message, with none of the weight data already fetched.        *)
(***************************************************************************)
C6_TwoRequestsMerged ==
  \A i \in Slots :
    (Active(i) /\ inv[i].tool \in DualEndpointTools) =>
      /\ Len(inv[i].requests) \in {1, 2}
      /\ inv[i].requests[1].url =
           baseUrl \o "/user/-/body/log/weight/date/" \o inv[i].formattedDate
             \o BodyPathTail(i)
      /\ (Len(inv[i].requests) = 2) <=>
           (Len(inv[i].outcomes) >= 1 /\ ~OutcomeFailed(inv[i].outcomes[1]))
      /\ Len(inv[i].requests) = 2 =>
           inv[i].requests[2].url =
             baseUrl \o "/user/-/body/log/fat/date/" \o inv[i].formattedDate
               \o BodyPathTail(i)
      /\ (Done(i) /\ Len(inv[i].outcomes) = 2) =>
           /\ inv[i].result.state = "resolved"
           /\ Len(Envelope(i).content) = 1
           /\ IF OutcomeFailed(inv[i].outcomes[2])
              THEN /\ IsErrorEnvelope(i)
                   /\ Text(i) = "Error: " \o FailureMessage(inv[i].outcomes[2])
              ELSE IsSuccessEnvelope(i) =>
                     Text(i) = JSONstringify(
                       JObj(<< <<"date", JStr(inv[i].formattedDate)>>,
                               <<"weight",
                                 IF IsTruthy(Prop(BodyOf(i, 1), "weight"))
                                 THEN Prop(BodyOf(i, 1), "weight") ELSE EmptyList>>,
                               <<"fat",
                                 IF IsTruthy(Prop(BodyOf(i, 2), "fat"))
                                 THEN Prop(BodyOf(i, 2), "fat") ELSE EmptyList>> >>))

\* both requests answered with data and the payload merges them
C6_Witness ==
  /\ Done(1)
  /\ inv[1].tool = "getBodyMeasurements"
  /\ inv[1].date = Some("2024-03-15")
  /\ inv[1].period = Some("7d")
  /\ Len(inv[1].outcomes) = 2
  /\ ~OutcomeFailed(LastOutcome(1))
  /\ inv[1].requests[1].url
       = "https://api.fitbit.com/1/user/-/body/log/weight/date/2024-03-15/7d.json"
  /\ inv[1].requests[2].url
       = "https://api.fitbit.com/1/user/-/body/log/fat/date/2024-03-15/7d.json"
  /\ BodyOf(1, 1) = FullBody("getBodyMeasurements")
  /\ BodyOf(1, 2) = SampleObject
  /\ Text(1) = "{\n  \"date\": \"2024-03-15\",\n  \"weight\": [\n    1,\n    \"a\"\n  ],\n"
                 \o "  \"fat\": []\n}"

(***************************************************************************)
(* C7: No request is retried or cached.  Every call of the request helper  *)
(* makes exactly one outbound network call; an invocation of a tool other  *)
(* than getBodyMeasurements issues exactly one request whether it succeeds *)
(* or fails; after an upstream failure the invocation issues no further    *)
(* request; invoking a tool again issues its request again.                *)
(***************************************************************************)
C7_OneRequestEach ==
  \A i \in Slots :
    Active(i) =>
      /\ inv[i].tool \notin DualEndpointTools => Len(inv[i].requests) = 1
      /\ Len(inv[i].requests) <= Len(inv[i].outcomes) + 1
      /\ Done(i) => Len(inv[i].requests) = Len(inv[i].outcomes)
      /\ \A k \in 1..Len(inv[i].outcomes) :
           OutcomeFailed(inv[i].outcomes[k]) => Done(i) /\ Len(inv[i].requests) = k

\* a step in which an invocation issues a request makes one network call,
\* for that request, and no other step makes any
C7_OneCallPerRequest ==
  /\ \A i \in Slots :
       Len(inv'[i].requests) > Len(inv[i].requests) =>
         /\ Len(inv'[i].requests) = Len(inv[i].requests) + 1
         /\ network'.count = network.count + 1
         /\ network'.last = inv'[i].requests[Len(inv'[i].requests)]
  /\ network'.count # network.count =>
       \E i \in Slots : Len(inv'[i].requests) = Len(inv[i].requests) + 1

C7_NoRetryNoCache == [][C7_OneCallPerRequest]_vars /\ []C7_OneRequestEach

\* a second invocation failed after one request of its own
C7_Witness ==
  /\ network.count = 2
  /\ Done(1)
  /\ inv[1].tool = "getSleepLogs"
  /\ OutcomeFailed(LastOutcome(1))
  /\ Len(inv[1].requests) = 1
  /\ IsErrorEnvelope(1)

(***************************************************************************)
(* C8: Every outbound request of every tool carries the header             *)
(* Authorization: Bearer <token>, with the token the server was            *)
(* initialised with, and Accept: application/json; no step of a running    *)
(* server changes the token.                                               *)
(***************************************************************************)
C8_Headers(request) ==
  /\ DOMAIN request.headers = {"Authorization", "Accept"}
  /\ request.headers.Authorization = "Bearer " \o accessToken.value
  /\ request.headers.Accept = "application/json"

C8_EveryRequestAuthorized ==
  /\ \A i \in Slots : \A k \in 1..Len(inv[i].requests) : C8_Headers(inv[i].requests[k])
  /\ network.count > 0 => C8_Headers(network.last)

C8_TokenFixed == phase = "running" => (phase' = "running" /\ accessToken' = accessToken)

C8_SameBearerToken == []C8_EveryRequestAuthorized /\ [][C8_TokenFixed]_vars

C8_Witness ==
  /\ network.count = 2
  /\ Done(1)
  /\ accessToken = Some("tok-B")
  /\ network.last.headers.Authorization = "Bearer tok-B"
  /\ inv[1].requests[1].headers.Authorization = "Bearer tok-B"

(***************************************************************************)
(* C9: In no reachable state is a tool registered or invocable while the   *)
(* access token is missing or empty: without a credential the process has  *)
(* exited before any tool was registered.                                  *)
(***************************************************************************)
C9_NoToolWithoutToken ==
  (tools # {} \/ phase = "running") => (accessToken.present /\ accessToken.value # "")

(***************************************************************************)
(* C10: For every tool that reshapes its response, a successful upstream   *)
(* body that is an object without the extracted fields ({} in particular)  *)
(* yields a success envelope in which every extracted field has its        *)
(* default, [] or {}: {date, <field1>: [], summary: {}} for the date-only  *)
(* tools, {date, <summary field>: [], intraday: {}} for the date+period    *)
(* tools.                                                                  *)
(***************************************************************************)
\* bodies that are objects with none of the fields any tool extracts
FieldlessBodies == {EmptyObject, SampleObject}

C10_FieldLine(i, k) ==
  LET field == OutputFields(inv[i].tool)[k]
  IN "  \"" \o field[1] \o "\": " \o (IF field[3] = EmptyList THEN "[]" ELSE "{}")

C10_DefaultsText(i) ==
  "{\n"
    \o (IF inv[i].tool \in DateTools
        THEN "  \"date\": \"" \o inv[i].formattedDate \o "\",\n" ELSE "")
    \o C10_FieldLine(i, 1)
    \o (IF Len(OutputFields(inv[i].tool)) = 2 THEN ",\n" \o C10_FieldLine(i, 2) ELSE "")
    \o "\n}"

C10_DefaultsShape(i) ==
  /\ inv[i].tool \in DateOnlyTools =>
       /\ OutputFields(inv[i].tool)[1][3] = EmptyList
       /\ OutputFields(inv[i].tool)[2] = <<"summary", "summary", EmptyObject>>
  /\ inv[i].tool \in DatePeriodTools =>
       /\ OutputFields(inv[i].tool)[1][3] = EmptyList
       /\ OutputFields(inv[i].tool)[2][1] = "intraday"
       /\ OutputFields(inv[i].tool)[2][3] = EmptyObject

C10_MissingFieldsDefaulted ==
  \A i \in Slots :
    (/\ Done(i)
     /\ inv[i].tool \notin VerbatimTools
     /\ \A k \in 1..Len(inv[i].outcomes) :
          /\ ~OutcomeFailed(inv[i].outcomes[k])
          /\ BodyOf(i, k) \in FieldlessBodies)
    => /\ inv[i].result.state = "resolved"
       /\ IsSuccessEnvelope(i)
       /\ C10_DefaultsShape(i)
       /\ Text(i) = C10_DefaultsText(i)

C10_Witness ==
  /\ Done(1)
  /\ inv[1].tool = "getFoodLogs"
  /\ inv[1].date = Some("2024-03-15")
  /\ ~OutcomeFailed(LastOutcome(1))
  /\ BodyOf(1, 1) = EmptyObject
  /\ IsSuccessEnvelope(1)
  /\ Text(1) = "{\n  \"date\": \"2024-03-15\",\n  \"meals\": [],\n  \"summary\": {}\n}"

(***************************************************************************)
(* C11: The only failures an invocation reports are those of the request   *)
(* helper.  Whenever every upstream request of an invocation returned a    *)
(* 2xx status with a decodable JSON body of any value (object, array,      *)
(* null, number or string), the invocation returns a success envelope,     *)
(* never an isError envelope produced by the reshaping step.               *)
(***************************************************************************)
C11_OnlyRequestFailures ==
  \A i \in Slots :
    (/\ Done(i)
     /\ \A k \in 1..Len(inv[i].outcomes) : ~OutcomeFailed(inv[i].outcomes[k]))
    => /\ inv[i].result.state = "resolved"
       /\ IsSuccessEnvelope(i)

(***************************************************************************)
(* C12: For each tool with no declared parameters (getUserProfile,         *)
(* getLifetimeStats, getUserSettings, getDevices, getBadges) the issued    *)
(* endpoint path is a constant of the tool: the same for every invocation, *)
(* whatever extra unknown parameter is supplied, whatever the clock reads  *)
(* and whatever was invoked before.                                        *)
(***************************************************************************)
C12_FixedPath(tool) ==
  CASE tool = "getUserProfile" -> "/user/-/profile.json"
    [] tool = "getLifetimeStats" -> "/user/-/activities.json"
    [] tool = "getUserSettings" -> "/user/-/profile.json"
    [] tool = "getDevices" -> "/user/-/devices.json"
    [] tool = "getBadges" -> "/user/-/badges.json"

C12_ConstantEndpoint ==
  \A i \in Slots :
    (Active(i) /\ inv[i].tool \in NoParamTools) =>
      /\ Len(inv[i].requests) = 1
      /\ inv[i].requests[1].url = "https://api.fitbit.com/1" \o C12_FixedPath(inv[i].tool)

\* a later invocation, after the clock has advanced, with an extra parameter
C12_Witness ==
  /\ Active(1)
  /\ inv[1].tool = "getDevices"
  /\ inv[1].extra = Some("2024-03-15")
  /\ now > StartHour
  /\ network.count = 2
  /\ inv[1].requests[1].url = "https://api.fitbit.com/1/user/-/devices.json"

(***************************************************************************)
(* C13: Concurrent invocations are independent.  Under every interleaving  *)
(* of their awaits, the requests an invocation issues and the envelope it  *)
(* returns are determined by its own parameters, the clock value it read   *)
(* and the responses to its own requests; a step of one invocation changes *)
(* no other invocation.                                                    *)
(***************************************************************************)
\* the date an invocation uses, from its own parameter and its own clock read
C13_OwnDate(i) ==
  IF inv[i].date.present /\ inv[i].date.value # "" THEN inv[i].date.value
  ELSE DateString(inv[i].calledAt \div 24)

\* the path of the k-th request of an invocation, from its own parameters
C13_OwnPath(i, k) ==
  IF inv[i].tool \in NoParamTools THEN C12_FixedPath(inv[i].tool)
  ELSE DatePrefix(inv[i].tool, k) \o C13_OwnDate(i)
         \o (IF inv[i].tool \in DatePeriodTools
             THEN (IF inv[i].period.present /\ inv[i].period.value # ""
                   THEN "/" \o inv[i].period.value \o ".json" ELSE "/1d.json")
             ELSE IF inv[i].tool \in DualEndpointTools THEN BodyPathTail(i)
             ELSE ".json")

\* how many requests an invocation has issued, from its own responses
C13_OwnRequestCount(i) ==
  IF /\ inv[i].tool \in DualEndpointTools
     /\ Len(inv[i].outcomes) >= 1
     /\ ~OutcomeFailed(inv[i].outcomes[1])
  THEN 2 ELSE 1

C13_OwnInputsDecide ==
  \A i \in Slots :
    Active(i) =>
      /\ Len(inv[i].requests) = C13_OwnRequestCount(i)
      /\ \A k \in 1..Len(inv[i].requests) :
           inv[i].requests[k].url = baseUrl \o C13_OwnPath(i, k)
      /\ Done(i) => C1_WellFormed(i) /\ C1_Text(i)

C13_OthersUntouched ==
  \A i \in Slots : \A j \in Slots \ {i} :
    inv'[i] # inv[i] => inv'[j] = inv[j]

C13_Independent == []C13_OwnInputsDecide /\ [][C13_OthersUntouched]_vars

\* getBodyMeasurements, called first, is waiting for its fat-log request
\* while an invocation called after it has already failed
C13_Witness ==
  /\ inv[1].pc = "await"
  /\ inv[1].tool = "getBodyMeasurements"
  /\ Len(inv[1].requests) = 2
  /\ Done(2)
  /\ inv[2].tool = "getActivities"
  /\ inv[2].calledAt > inv[1].calledAt
  /\ IsErrorEnvelope(2)
  /\ network.last = inv[1].requests[2]

(***************************************************************************)
(* C14: In getBodyMeasurements the two requests are strictly sequential.   *)
(* The fat-log request is issued only after the weight-log request has     *)
(* completed successfully, the two are never in flight at the same time,   *)
(* and if the weight-log request fails the fat-log request is never issued *)
(* and the invocation returns a single error envelope.                     *)
(***************************************************************************)
\* requests issued and not yet settled
InFlight(i) == Len(inv[i].requests) - Len(inv[i].outcomes)

C14_Sequential ==
  \A i \in Slots :
    (Active(i) /\ inv[i].tool \in DualEndpointTools) =>
      /\ InFlight(i) \in {0, 1}
      /\ InFlight(i) = 0 <=> Done(i)
      /\ Len(inv[i].requests) = 2 =>
           /\ Len(inv[i].outcomes) >= 1
           /\ ~OutcomeFailed(inv[i].outcomes[1])
           /\ inv[i].issuedAt[2] >= inv[i].issuedAt[1]
      /\ (Len(inv[i].outcomes) >= 1 /\ OutcomeFailed(inv[i].outcomes[1])) =>
           /\ Len(inv[i].requests) = 1
           /\ Done(i)
           /\ inv[i].result.state = "resolved"
           /\ IsErrorEnvelope(i)
           /\ Len(Envelope(i).content) = 1
           /\ Text(i) = "Error: " \o FailureMessage(inv[i].outcomes[1])

\* the weight-log request failed and no fat-log request was issued
C14_Witness ==
  /\ Done(1)
  /\ inv[1].tool = "getBodyMeasurements"
  /\ inv[1].outcomes = <<TransportFailure>>
  /\ Len(inv[1].requests) = 1
  /\ Text(1) = "Error: fetch failed"

(***************************************************************************)
(* C15: Within one invocation the date is normalised exactly once, before  *)
(* the first request.  For every date-accepting tool the `date` field of   *)
(* the success payload equals the date in the issued request path(s); for  *)
(* getBodyMeasurements with `date` absent the weight-log path, the fat-log *)
(* path and the payload all carry the date read at the call, even when the *)
(* clock's date changes between the two requests.                          *)
(***************************************************************************)
\* the date the clock showed when the first request was issued
C15_DateAtFirstRequest(i) == DateString(inv[i].issuedAt[1] \div 24)

C15_NormalizedOnce ==
  \A i \in Slots :
    (Active(i) /\ inv[i].tool \in DateTools) =>
      /\ \E d \in {inv[i].formattedDate} : DateInPaths(i, d) /\ DateInPayload(i, d)
      /\ ~Truthy(inv[i].date) =>
           /\ DateInPaths(i, C15_DateAtFirstRequest(i))
           /\ DateInPayload(i, C15_DateAtFirstRequest(i))

\* the date changed between the two requests of getBodyMeasurements
C15_Witness ==
  /\ Done(1)
  /\ inv[1].tool = "getBodyMeasurements"
  /\ inv[1].date = Absent
  /\ Len(inv[1].requests) = 2
  /\ inv[1].issuedAt[2] \div 24 # inv[1].issuedAt[1] \div 24
  /\ inv[1].result.state = "resolved"
  /\ IsSuccessEnvelope(1)
  /\ DateInPaths(1, C15_DateAtFirstRequest(1))
  /\ DateInPayload(1, C15_DateAtFirstRequest(1))

====
